---- MODULE Spec2Model ----
(***************************************************************************)
(* Model of renewable_optimizer.py: the scenario generator (load_data),    *)
(* the dispatch cost evaluator (energy_cost), the optimizer adapters       *)
(* (run_gwwoa .. run_fpa), the SOC trace (calculate_soc) and the harness   *)
(* of trials (run_multiple_trials).                                        *)
(*                                                                         *)
(* The program computes in floating point; the model computes in fixed     *)
(* point, rounding each quotient down:                                     *)
(*   power, capacity      1e-4 kW / kWh     (80 kW        = 800000)        *)
(*   dispatch fraction u  1e-3              (0.5          = 500)           *)
(*   SOC, ratios          1e-6              (0.5          = 500000)        *)
(*   temperature          1e-2 degree C     (25 C         = 2500)          *)
(*   price                1e-3 $ per kWh    (0.2 $/kWh    = 200)           *)
(*   money                cent              (1e6 $        = 100000000)     *)
(* A float that is +infinity is the value Inf, a NaN the value NaN.        *)
(***************************************************************************)
EXTENDS Integers, Sequences, FiniteSets, TLC

VARIABLES
    \* RenewableOptimizer fields
    hours,              \* self.hours
    temperature,        \* self.temperature
    solar_failure,      \* self.solar_failure
    wind_failure,       \* self.wind_failure
    grid_available,     \* self.grid_available
    emergency_event,    \* self.emergency_event
    P_solar,            \* self.P_solar
    P_wind,             \* self.P_wind
    P_gen,              \* self.P_gen
    P_demand,           \* self.P_demand
    grid_price,         \* self.grid_price
    data_pc,            \* position of load_data: "idle", "loaded", "off"
    \* energy_cost: one frame of locals per call in progress
    callers,            \* the calls of energy_cost that are made
    call,               \* call[c]: pc, solution, t_i, total_cost, SOC, SOC_history, ret
    \* calculate_soc
    soc,                \* pc, solution, hours, t, SOC (the array), or pc = "off"
    \* run_multiple_trials
    harness             \* pc, algorithms, num_trials, trial, alg_i, trial_results, results, log

optVars  == <<hours, temperature, solar_failure, wind_failure, grid_available,
              emergency_event, P_solar, P_wind, P_gen, P_demand, grid_price>>
callVars == <<callers, call>>
vars     == <<optVars, data_pc, callVars, soc, harness>>

----------------------------------------------------------------------------
\* Bounds of the model

\* hours of a sampled evaluation (the program's default is Hours)
SimHours == 4

\* trials of a sampled harness run
MaxTrials == 2

\* hours of a sampled calculate_soc call
MaxSocHours == 3

----------------------------------------------------------------------------
\* Floats

\* np.inf
Inf == 2147483647

\* np.nan
NaN == -2147483647

IsFinite(x) == x # Inf /\ x # NaN

Abs(x) == IF x < 0 THEN -x ELSE x

Max(a, b) == IF a >= b THEN a ELSE b

\* np.clip(x, lo, hi)
Clip(x, lo, hi) == IF x < lo THEN lo ELSE IF x > hi THEN hi ELSE x

\* floor(x * m / d), d > 0, without leaving 32 bits
MulDiv(x, m, d) == (x \div d) * m + ((x % d) * m) \div d

Pow10(k) == CASE k = 0 -> 1 [] k = 1 -> 10 [] k = 2 -> 100 [] k = 3 -> 1000
              [] k = 4 -> 10000 [] k = 5 -> 100000 [] k = 6 -> 1000000

RECURSIVE Frac(_, _, _)
\* floor(r * 10^k / d) for 0 <= r < d, one decimal digit at a time
Frac(r, d, k) ==
    IF k = 0 THEN 0
    ELSE ((r * 10) \div d) * Pow10(k - 1) + Frac((r * 10) % d, d, k - 1)

\* floor(n * 10^k / d) for n >= 0, d > 0: the quotient n / d to k decimals
LongDiv(n, d, k) == (n \div d) * Pow10(k) + Frac(n % d, d, k)

RECURSIVE SqrtSearch(_, _, _)
SqrtSearch(n, lo, hi) ==
    IF lo = hi THEN lo
    ELSE LET mid == (lo + hi + 1) \div 2
         IN IF mid * mid <= n THEN SqrtSearch(n, mid, hi)
            ELSE SqrtSearch(n, lo, mid - 1)

\* floor(sqrt(n)), 0 <= n < 2^31
ISqrt(n) == SqrtSearch(n, 0, 46340)

RECURSIVE SumSeq(_)
\* sum(xs)
SumSeq(xs) == IF xs = <<>> THEN 0 ELSE Head(xs) + SumSeq(Tail(xs))

----------------------------------------------------------------------------
\* RenewableOptimizer.__init__

\* hours=24
Hours == 24

\* self.capital_cost, $/kWh
capital_cost == 500

\* self.charge_eff, percent
charge_eff == 95

\* self.discharge_eff, percent
discharge_eff == 95

\* self.SOC_min
SOC_min == 100000

\* self.SOC_max
SOC_max == 900000

\* self.SOC_capacity_decay[i] = 1.0 - 0.005*i, in 1e-4
SOC_capacity_decay(i) == 10000 - 50 * i

----------------------------------------------------------------------------
\* RenewableOptimizer.energy_cost

\* S = solution[0]
SolS(solution) == solution[1]

\* u = solution[1:]
SolU(solution) == Tail(solution)

\* effective_S = S * self.SOC_capacity_decay[t_i]   (S in kWh, result in 1e-4 kWh)
EffectiveS(S, t_i) == S * SOC_capacity_decay(t_i)

\* P_bess = u[t_i] * effective_S
PBess(S, u, t_i) == MulDiv(EffectiveS(S, t_i), u[t_i + 1], 1000)

\* P_grid = self.P_demand[t_i] - self.P_gen[t_i] - P_bess
PGrid(S, u, t_i) == P_demand[t_i + 1] - P_gen[t_i + 1] - PBess(S, u, t_i)

\* if self.emergency_event[t_i]: shortage = max(0, 1.5*demand - (gen + P_bess));
\* total_cost += shortage * 1000
EmergencyCost(S, u, t_i) ==
    IF emergency_event[t_i + 1] # 0
    THEN LET required_power == MulDiv(P_demand[t_i + 1], 15, 10)
             shortage == Max(0, required_power - (P_gen[t_i + 1] + PBess(S, u, t_i)))
         IN shortage * 10
    ELSE 0

\* if not self.grid_available[t_i] and P_grid > 0: total_cost += 1e6
GridPenalty(S, u, t_i) ==
    IF grid_available[t_i + 1] = 0 /\ PGrid(S, u, t_i) > 0 THEN 100000000 ELSE 0

\* grid_cost without its guard: exports are paid for
GridCostUngated(P_grid, price) == MulDiv(P_grid, price, 100000)

\* grid_cost = P_grid * self.grid_price[t_i] if P_grid > 0 else 0
GridCost(P_grid, price) == IF P_grid > 0 THEN MulDiv(P_grid, price, 100000) ELSE 0

\* degradation = 0.02 * (abs(P_bess)**1.5) * (1 + SOC/0.9)
Degradation(P_bess, SOC) ==
    LET p == Abs(P_bess)
        \* p^1.5 in 0.1 kW^1.5: p * sqrt(100 p) / 1e6
        pow15 == MulDiv(p, ISqrt(p * 100), 1000) \div 1000
    IN MulDiv(pow15, (SOC_max + SOC) \div 1000, 4500)

\* carbon_cost without the factor 2
CarbonCostHalved(P_grid) == MulDiv(P_grid, 487, 100000)

\* carbon_cost = P_grid * 0.487 * 2
CarbonCost(P_grid) == MulDiv(P_grid, 487 * 2, 100000)

\* delta_temp = abs(P_bess/effective_S)/0.05
DeltaTemp(P_bess, effective_S) == LongDiv(Abs(P_bess), effective_S, 6) \div 500

\* if self.temperature > 45: total_cost += (self.temperature - 45)**2 * 10
ThermalPenalty(temp) ==
    IF temp > 4500 THEN ((temp - 4500) * (temp - 4500)) \div 10 ELSE 0

\* delta of the SOC update: charging (P_bess < 0) gains P*charge_eff/S,
\* discharging loses P/(discharge_eff*S)
SocDelta(P_bess, effective_S) ==
    IF P_bess < 0
    THEN LongDiv((-P_bess) * charge_eff, effective_S, 4)
    ELSE -((LongDiv(P_bess, effective_S, 6) * 100) \div discharge_eff)

\* if t_i >= 3: avg_soc = mean(SOC_history[-3:]); if abs(SOC - avg_soc) > 0.2: += 1e4
SocStabilityPenalty(t_i, SOC, SOC_history) ==
    IF t_i >= 3
    THEN LET n == Len(SOC_history)
             sum3 == SOC_history[n] + SOC_history[n - 1] + SOC_history[n - 2]
         IN IF Abs(3 * SOC - sum3) > 600000 THEN 1000000 ELSE 0
    ELSE 0

\* One pass of the loop body for hour t_i, from the locals in st and the
\* temperature field temp; the new locals and the new temperature field.
HourStep(S, u, t_i, st, temp) ==
    LET effective_S == EffectiveS(S, t_i)
        P_bess == PBess(S, u, t_i)
        P_grid == PGrid(S, u, t_i)
        cost1 == st.total_cost + EmergencyCost(S, u, t_i) + GridPenalty(S, u, t_i)
        cost2 == cost1 + GridCost(P_grid, grid_price[t_i + 1])
                       + Degradation(P_bess, st.SOC) + CarbonCost(P_grid)
        temp2 == temp + DeltaTemp(P_bess, effective_S)
        cost3 == cost2 + ThermalPenalty(temp2)
        SOC2  == Clip(st.SOC + SocDelta(P_bess, effective_S), SOC_min, SOC_max)
        hist2 == Append(st.SOC_history, SOC2)
        cost4 == cost3 + SocStabilityPenalty(t_i, SOC2, hist2)
    IN [total_cost |-> cost4, SOC |-> SOC2, SOC_history |-> hist2, temperature |-> temp2]

\* sum(u*S), in 1e-4 kW
SumUS(S, u) == SumSeq([i \in 1..Len(u) |-> u[i] * S * 10])

\* the efficiency term without its guard efficiency < 0.85
EfficiencyPenaltyUnguarded(S, u) ==
    LET num == SumSeq(P_gen) + SumUS(S, u)
        den == SumSeq(P_demand)
        efficiency == IF num >= 0 THEN LongDiv(num, den, 6) ELSE -LongDiv(-num, den, 6)
    IN IF den = 0 THEN (IF num < 0 THEN Inf ELSE 0) ELSE 850000 - efficiency

\* efficiency = (sum(P_gen) + sum(u*S)) / sum(P_demand);
\* if efficiency < 0.85: total_cost += (0.85 - efficiency) * 1e4
\* A float64 division by 0 gives +-inf or nan: only -inf is < 0.85.
EfficiencyPenalty(S, u) ==
    LET num == SumSeq(P_gen) + SumUS(S, u)
        den == SumSeq(P_demand)
        efficiency == IF num >= 0 THEN LongDiv(num, den, 6) ELSE -LongDiv(-num, den, 6)
    IN IF den = 0 THEN (IF num < 0 THEN Inf ELSE 0)
       ELSE IF efficiency < 850000 THEN 850000 - efficiency ELSE 0

\* 100 * abs(np.sin(S*0.01))
PeriodicCost(S) == CASE S = 1 -> 99 [] S = 100 -> 8414 [] S = 2000 -> 9129

\* total_cost + x in floats
FAdd(x, y) == IF x = Inf \/ y = Inf THEN Inf ELSE x + y

CallIds == {1, 2}

IdleFrame(solution) ==
    [pc |-> "idle", solution |-> solution, t_i |-> 0, total_cost |-> 0, SOC |-> 0,
     SOC_history |-> <<>>, ret |-> 0]

\* lines 57-62: the locals, and self.temperature = 25
Enter(c) ==
    /\ c \in callers
    /\ call[c].pc = "idle"
    /\ call' = [call EXCEPT ![c] =
                  [@ EXCEPT !.pc = "loop", !.t_i = 0,
                            !.total_cost = capital_cost * SolS(call[c].solution) * 100,
                            !.SOC = 500000, !.SOC_history = <<>>]]
    /\ temperature' = 2500
    /\ UNCHANGED <<hours, solar_failure, wind_failure, grid_available, emergency_event,
                   P_solar, P_wind, P_gen, P_demand, grid_price, data_pc, callers,
                   soc, harness>>

\* lines 64-104: one iteration of for t_i in range(self.hours); u[t_i] raises
\* IndexError when the solution is too short
Hour(c) ==
    /\ c \in callers
    /\ call[c].pc = "loop"
    /\ call[c].t_i < hours
    /\ LET f == call[c]
           S == SolS(f.solution)
           u == SolU(f.solution)
       IN IF f.t_i + 1 > Len(u)
          THEN /\ call' = [call EXCEPT ![c] = [@ EXCEPT !.pc = "raised"]]
               /\ UNCHANGED temperature
          ELSE LET st == HourStep(S, u, f.t_i, f, temperature)
               IN /\ call' = [call EXCEPT ![c] =
                                [@ EXCEPT !.t_i = @ + 1,
                                          !.total_cost = st.total_cost,
                                          !.SOC = st.SOC,
                                          !.SOC_history = st.SOC_history]]
                  /\ temperature' = st.temperature
    /\ UNCHANGED <<hours, solar_failure, wind_failure, grid_available, emergency_event,
                   P_solar, P_wind, P_gen, P_demand, grid_price, data_pc, callers,
                   soc, harness>>

\* lines 106-114: efficiency target, periodic cost, return total_cost
Return(c) ==
    /\ c \in callers
    /\ call[c].pc = "loop"
    /\ call[c].t_i = hours
    /\ LET f == call[c]
           S == SolS(f.solution)
           u == SolU(f.solution)
       IN call' = [call EXCEPT ![c] =
                     [@ EXCEPT !.pc = "done",
                               !.ret = FAdd(FAdd(f.total_cost, EfficiencyPenalty(S, u)),
                                            PeriodicCost(S))]]
    /\ UNCHANGED <<optVars, data_pc, callers, soc, harness>>

\* energy_cost(solution) run by itself from a fresh temperature: the fold of
\* HourStep over the hours, then the post-loop terms
RECURSIVE Fold(_, _, _, _)
Fold(S, u, t_i, st) ==
    IF t_i = hours THEN st
    ELSE Fold(S, u, t_i + 1, HourStep(S, u, t_i, st, st.temperature))

EnergyCostAlone(solution) ==
    LET S == SolS(solution)
        u == SolU(solution)
        st == Fold(S, u, 0, [total_cost |-> capital_cost * S * 100, SOC |-> 500000,
                             SOC_history |-> <<>>, temperature |-> 2500])
    IN FAdd(FAdd(st.total_cost, EfficiencyPenalty(S, u)), PeriodicCost(S))

----------------------------------------------------------------------------
\* Inputs of the sampled evaluations

\* capacities S in [1, 2000]
SVals == {1, 100, 2000}

\* dispatch fractions u_t in [-0.5, 0.5]
UVals == {-500, 0, 500}

\* one hour of a scenario: generation, demand, price, grid-available, emergency
Profiles ==
    { [gen |-> 0,       demand |-> 800000, price |-> 200, avail |-> 1, emerg |-> 0],
      [gen |-> 4000000, demand |-> 800000, price |-> 50, avail |-> 1, emerg |-> 0],
      [gen |-> 0,       demand |-> 800000, price |-> 200, avail |-> 0, emerg |-> 1],
      [gen |-> 0,       demand |-> 0,      price |-> 50, avail |-> 1, emerg |-> 0],
      [gen |-> 800000,  demand |-> 800000, price |-> 200, avail |-> 1, emerg |-> 0] }

\* the scenario of h hours that alternates the profiles a and b
Alternate(a, b, h) == [t \in 1..h |-> IF t % 2 = 1 THEN a ELSE b]

\* solutions: every dispatch of the right length, and constant dispatches one
\* element too short and one too long
Solutions(h) ==
    { <<S>> \o u : S \in SVals, u \in [1..h -> UVals] }
    \cup { <<S>> \o [i \in 1..n |-> x] : S \in SVals, x \in UVals, n \in {h - 1, h + 1} }

OffSoc == [pc |-> "off"]

OffHarness == [pc |-> "off"]

OffCall == [pc |-> "off"]

ScenarioIs(scn, h) ==
    /\ hours = h
    /\ P_gen = [t \in 1..h |-> scn[t].gen]
    /\ P_demand = [t \in 1..h |-> scn[t].demand]
    /\ grid_price = [t \in 1..h |-> scn[t].price]
    /\ grid_available = [t \in 1..h |-> scn[t].avail]
    /\ emergency_event = [t \in 1..h |-> scn[t].emerg]
    /\ P_solar = <<>>
    /\ P_wind = <<>>
    /\ solar_failure = <<>>
    /\ wind_failure = <<>>
    /\ temperature = 2500
    /\ data_pc = "off"

\* the example scenario: no generation, demand 80, price 0.2, grid available, no
\* emergency, over the default 24 hours
IdleProfile == [gen |-> 0, demand |-> 800000, price |-> 200, avail |-> 1, emerg |-> 0]

\* S = 100, u = [0]*24
IdleSolution == <<100>> \o [i \in 1..Hours |-> 0]

\* One call of energy_cost on a constructed optimizer
Init ==
    /\ callers = {1}
    /\ soc = OffSoc
    /\ harness = OffHarness
    /\ \/ /\ \E a \in Profiles, b \in Profiles : ScenarioIs(Alternate(a, b, SimHours), SimHours)
          /\ \E s \in Solutions(SimHours) : call = [c \in CallIds |-> IF c = 1 THEN IdleFrame(s) ELSE OffCall]
       \/ /\ ScenarioIs(Alternate(IdleProfile, IdleProfile, Hours), Hours)
          /\ call = [c \in CallIds |-> IF c = 1 THEN IdleFrame(IdleSolution) ELSE OffCall]

Next == \E c \in CallIds : Enter(c) \/ Hour(c) \/ Return(c)

Spec == Init /\ [][Next]_vars

----------------------------------------------------------------------------
\* Claims about energy_cost

\* the solution has H+1 elements
WellShaped(c) == Len(call[c].solution) = hours + 1

\* every element of the solution is inside its box: S in [1,2000], u_t in [-0.5,0.5]
InBounds(c) ==
    /\ SolS(call[c].solution) >= 1 /\ SolS(call[c].solution) <= 2000
    /\ \A i \in 1..Len(SolU(call[c].solution)) :
          SolU(call[c].solution)[i] >= -500 /\ SolU(call[c].solution)[i] <= 500

\* the Scenario invariant: generation and demand non-negative, price >= 0.05
ScenarioValid ==
    \A t \in 1..hours : P_gen[t] >= 0 /\ P_demand[t] >= 0 /\ grid_price[t] >= 50

Returned(c) == c \in callers /\ call[c].pc = "done" /\ WellShaped(c) /\ InBounds(c)

\* no hour exports: P_grid >= 0 in every hour
NoExport(c) ==
    \A t \in 0..(hours - 1) : PGrid(SolS(call[c].solution), SolU(call[c].solution), t) >= 0

\* C1 as stated: for every valid scenario and every in-bound solution, energy_cost
\* returns a finite cost that is >= 0.
C1_FiniteNonNegative ==
    \A c \in CallIds :
        (Returned(c) /\ ScenarioValid) => IsFinite(call[c].ret) /\ call[c].ret >= 0

\* C1 amended: for every valid scenario and every in-bound solution, the cost
\* energy_cost returns is finite when total demand is positive, and is >= 0
\* when no hour has negative P_grid.
C1_FiniteWithDemandNonNegativeWithoutExport ==
    \A c \in CallIds :
        (Returned(c) /\ ScenarioValid) =>
            /\ SumSeq(P_demand) > 0 => IsFinite(call[c].ret)
            /\ NoExport(c) => call[c].ret >= 0

\* a returned evaluation with positive demand, no export and a working battery
C1_Witness ==
    /\ Returned(1) /\ ScenarioValid /\ SumSeq(P_demand) > 0 /\ NoExport(1)
    /\ \E i \in 1..hours : SolU(call[1].solution)[i] # 0
    /\ \E t \in 1..hours : P_gen[t] > 0

\* the example of the spec: 24 idle hours at demand 80, price 0.2, S = 100
IdleExample(c) ==
    /\ c \in callers
    /\ call[c].pc = "done"
    /\ hours = Hours
    /\ call[c].solution = IdleSolution
    /\ \A t \in 1..Hours :
          /\ P_gen[t] = 0 /\ P_demand[t] = 800000 /\ grid_price[t] = 200
          /\ grid_available[t] = 1 /\ emergency_event[t] = 0

\* C2 as stated: the example costs capital_cost*100 + 24*(80*0.2) +
\* 24*(80*0.487*2) + 100*|sin(1.0)|, in cents 5000000 + 24*1600 + 24*7792 + 8414.
C2_ClosedForm ==
    \A c \in CallIds :
        IdleExample(c) => call[c].ret = 5000000 + 24 * 1600 + 24 * 7792 + 8414

\* C2 amended: the example costs capital_cost*100 + 24*(80*0.2) +
\* 24*(80*0.487*2) + 100*|sin(1.0)| + 0.85*1e4: degradation, thermal and
\* SOC-stability terms are 0, and the efficiency term is (0.85 - 0)*1e4 = 8500.
C2_ClosedFormWithEfficiency ==
    \A c \in CallIds :
        IdleExample(c) => call[c].ret = 5000000 + 24 * 1600 + 24 * 7792 + 8414 + 850000

C2_Witness == IdleExample(1)

\* C7: a solution whose length is not H+1 is rejected before any hour is
\* processed: no hourly step runs and no cost is returned.
C7_RejectedBeforeSimulation ==
    \A c \in CallIds :
        (c \in callers /\ ~WellShaped(c)) => call[c].pc # "done" /\ call[c].t_i = 0

\* the step is one pass of the loop body of call c
HourOf(c) == c \in callers /\ call[c].pc = "loop" /\ call'[c].pc = "loop"
             /\ call'[c].t_i = call[c].t_i + 1

\* P_grid of the hour call c is about to process
PGridNow(c) == PGrid(SolS(call[c].solution), SolU(call[c].solution), call[c].t_i)

\* C10 as stated: every term added to the running cost is non-negative, so the
\* running cost never decreases from one hour to the next.
C10_NeverDecreases ==
    [][\A c \in CallIds :
          (HourOf(c) /\ InBounds(c)) => call'[c].total_cost >= call[c].total_cost]_vars

\* C10 amended: every term added to the running cost other than the carbon term
\* is non-negative and the carbon term has the sign of P_grid, so the running
\* cost never decreases in an hour whose P_grid is >= 0.
C10_NeverDecreasesWithoutExport ==
    [][\A c \in CallIds :
          (HourOf(c) /\ InBounds(c)) =>
              /\ call'[c].total_cost - call[c].total_cost >= CarbonCost(PGridNow(c))
              /\ PGridNow(c) >= 0 => call'[c].total_cost >= call[c].total_cost
              /\ PGridNow(c) < 0 => CarbonCost(PGridNow(c)) < 0]_vars

\* two hours processed: the first exporting, the second importing
C10_Witness ==
    /\ 1 \in callers /\ call[1].pc = "loop" /\ call[1].t_i = 2 /\ InBounds(1)
    /\ PGrid(SolS(call[1].solution), SolU(call[1].solution), 0) < 0
    /\ PGrid(SolS(call[1].solution), SolU(call[1].solution), 1) > 0
    /\ SolU(call[1].solution)[1] # 0

----------------------------------------------------------------------------
\* Two calls of energy_cost on one optimizer, interleaved hour by hour

\* dispatches that are constant over the hours
ConstSolutions(h) == { <<S>> \o [i \in 1..h |-> x] : x \in UVals, S \in {100} }

InitInterleaved ==
    /\ callers = {1, 2}
    /\ soc = OffSoc
    /\ harness = OffHarness
    /\ \E a \in Profiles : ScenarioIs(Alternate(a, a, SimHours), SimHours)
    /\ \E s1 \in ConstSolutions(SimHours), s2 \in ConstSolutions(SimHours) :
          call = [c \in CallIds |-> IF c = 1 THEN IdleFrame(s1) ELSE IdleFrame(s2)]

SpecInterleaved == InitInterleaved /\ [][Next]_vars

\* C5: energy_cost writes no field of the optimizer, so each of two interleaved
\* evaluations returns the cost it returns when run alone.
C5_IsolatedEvaluations ==
    \A c \in CallIds :
        (c \in callers /\ call[c].pc = "done") =>
            call[c].ret = EnergyCostAlone(call[c].solution)

----------------------------------------------------------------------------
\* RenewableOptimizer.load_data

SinTable == <<0, 2588, 5000, 7071, 8660, 9659, 10000>>

\* np.sin(np.pi*k/12), in 1e-4
Sin12(k) ==
    LET m == k % 24
    IN IF m <= 6 THEN SinTable[m + 1]
       ELSE IF m <= 12 THEN SinTable[13 - m]
       ELSE IF m <= 18 THEN -SinTable[m - 11]
       ELSE -SinTable[25 - m]

\* base_solar = 50 * np.sin(np.pi*(t-6)/12) + 1
base_solar(t) == 50 * Sin12(t - 6) + 10000

\* base_wind = 30 * np.cos(np.pi*(t-12)/6) + 5
base_wind(t) == 30 * Sin12(2 * (t - 12) + 6) + 50000

\* base_demand = 80 + 30 * np.sin(np.pi*(t+6)/12)
base_demand(t) == 800000 + 30 * Sin12(t + 6)

\* base_price = 0.15 + 0.05 * np.sin(np.pi*(t-8)/12) + 0.05
base_price(t) == 150 + (50 * Sin12(t - 8)) \div 10000 + 50

\* np.clip(base * variation * failure, 0, None): the flag itself is the factor
Generation(base, variation, failure) ==
    Max(0, MulDiv(base, variation, 1000) * failure)

\* The fields load_data assigns, from the values d its random draws gave:
\* variation (1e-3), the four flag vectors, the demand noise (1e-3), the
\* spike hours and the spike factor (1e-3).  The flag vectors have 24
\* entries, so the arrays are those of hours = 24.
Loaded(d) ==
    /\ solar_failure' = d.solar_failure
    /\ wind_failure' = d.wind_failure
    /\ grid_available' = d.grid_available
    /\ emergency_event' = d.emergency_event
    /\ P_solar' = [t \in 1..Hours |->
                     Generation(base_solar(t - 1), d.variation[t], d.solar_failure[t])]
    /\ P_wind' = [t \in 1..Hours |->
                    Generation(base_wind(t - 1), d.variation[t], d.wind_failure[t])]
    /\ P_gen' = [t \in 1..Hours |-> P_solar'[t] + P_wind'[t]]
    /\ P_demand' = [t \in 1..Hours |->
                      MulDiv(MulDiv(base_demand(t - 1), d.variation[t], 1000),
                             d.demand_noise[t], 1000)]
    /\ grid_price' = [t \in 1..Hours |->
                        LET clipped == Max(50, MulDiv(base_price(t - 1), d.variation[t], 1000))
                        IN IF (t - 1) \in d.spike_hours
                           THEN MulDiv(clipped, d.spike_factor, 1000)
                           ELSE clipped]

\* load_data(trial_num) on a constructed optimizer
LoadData(trial_num, d) ==
    /\ data_pc = "idle"
    /\ hours = Hours
    /\ Loaded(d)
    /\ data_pc' = "loaded"
    /\ UNCHANGED <<hours, temperature, callers, call, soc, harness>>

\* flag vectors: no hour, every hour, hour 12 only, every hour but hour 12
FlagVectors ==
    { [t \in 1..Hours |-> 0], [t \in 1..Hours |-> 1],
      [t \in 1..Hours |-> IF t = 13 THEN 1 ELSE 0],
      [t \in 1..Hours |-> IF t = 13 THEN 0 ELSE 1] }

Constant(v) == [t \in 1..Hours |-> v]

\* the draws of the sampled load_data calls
Draws ==
    [ variation : {Constant(850), Constant(1000), Constant(1150)},
      solar_failure : FlagVectors,
      wind_failure : FlagVectors,
      grid_available : {Constant(0), Constant(1)},
      emergency_event : {Constant(0), Constant(1)},
      demand_noise : {Constant(850), Constant(1150)},
      spike_hours : {{0, 1, 2, 3}, {5, 11, 17, 23}},
      spike_factor : {3000, 5000} ]

\* the optimizer as __init__ leaves it
Constructed ==
    /\ hours = Hours
    /\ temperature = 2500
    /\ emergency_event = Constant(0)
    /\ solar_failure = <<>>
    /\ wind_failure = <<>>
    /\ grid_available = <<>>
    /\ P_solar = <<>>
    /\ P_wind = <<>>
    /\ P_gen = <<>>
    /\ P_demand = <<>>
    /\ grid_price = <<>>

InitLoadData ==
    /\ Constructed
    /\ data_pc = "idle"
    /\ callers = {}
    /\ call = [c \in CallIds |-> OffCall]
    /\ soc = OffSoc
    /\ harness = OffHarness

NextLoadData == \E trial_num \in 0..MaxTrials, d \in Draws : LoadData(trial_num, d)

SpecLoadData == InitLoadData /\ [][NextLoadData]_vars

\* C3: in every loaded scenario, an hour whose solar (wind) failure flag is set
\* has P_solar (P_wind) = 0, and an hour whose flag is not set keeps the noisy
\* base curve clipped at 0.
C3_OutageZeroesGeneration ==
    data_pc = "loaded" =>
        \A t \in 1..Hours :
            /\ solar_failure[t] = 1 => P_solar[t] = 0
            /\ wind_failure[t] = 1 => P_wind[t] = 0
            /\ (solar_failure[t] = 0 /\ base_solar(t - 1) > 0) => P_solar[t] > 0
            /\ (wind_failure[t] = 0 /\ base_wind(t - 1) > 0) => P_wind[t] > 0

----------------------------------------------------------------------------
\* The adapters run_gwwoa, run_ga, run_pso, run_gwo, run_woa, run_hs, run_fpa

\* The optimizers of sko and gwwo are not part of the program: one run of a
\* native optimizer is a value nat = [raised, best, best_y, ys], where ys is
\*   GWWOA, GWO, WOA, HS, FPA   the fitness history optimize() returns
\*   GA                         the values the callback's update() recorded
\*   PSO                        gbest_y after each of the max_iter calls run(1)

Last(xs) == xs[Len(xs)]

\* an exception leaves the method: nothing is returned
Raised == [raised |-> TRUE, best_x |-> "None", history |-> <<>>]

\* run_gwwoa, run_gwo, run_woa, run_hs, run_fpa:
\* best_solution, fitness_history = native.optimize(); return both as they are
RunPassThrough(nat) ==
    IF nat.raised THEN Raised
    ELSE [raised |-> FALSE, best_x |-> nat.best, history |-> nat.ys]

\* run_ga: best_x, best_y = ga.run();
\* if not callback.history: callback.history.append(best_y)
RunGa(nat) ==
    IF nat.raised THEN Raised
    ELSE [raised |-> FALSE, best_x |-> nat.best,
          history |-> IF nat.ys = <<>> THEN <<nat.best_y>> ELSE nat.ys]

\* run_pso: for _ in range(self.max_iter): pso.run(1); pso_history.append(pso.gbest_y)
RunPso(max_iter, nat) ==
    IF nat.raised THEN Raised
    ELSE [raised |-> FALSE, best_x |-> nat.best,
          history |-> [i \in 1..max_iter |-> nat.ys[i]]]

PassThroughMethods == {"run_gwwoa", "run_gwo", "run_woa", "run_hs", "run_fpa"}

Methods == PassThroughMethods \cup {"run_ga", "run_pso"}

\* getattr(optimizer, method_name)(): a name that is no method raises
CallMethod(method_name, max_iter, nat) ==
    CASE method_name \in PassThroughMethods -> RunPassThrough(nat)
      [] method_name = "run_ga" -> RunGa(nat)
      [] method_name = "run_pso" -> RunPso(max_iter, nat)
      [] OTHER -> Raised

\* the histories a sampled native run reports
NativeHistories == { <<>>, <<10>>, <<NaN>>, <<20, Inf>>, <<20, 10>> }

\* the runs of a native optimizer under max_iter: it raises, or it returns
NativeRuns(method_name, max_iter) ==
    { [raised |-> TRUE, best |-> "None", best_y |-> 0, ys |-> <<>>] }
    \cup { [raised |-> FALSE, best |-> "best_x", best_y |-> y, ys |-> ys] :
             y \in {10},
             ys \in IF method_name = "run_pso"
                    THEN { h \in NativeHistories : Len(h) = max_iter }
                    ELSE { h \in NativeHistories : Len(h) <= max_iter } }

----------------------------------------------------------------------------
\* run_multiple_trials

\* except Exception: a failure recorded with a cost of 0
FailureEntryZeroCost == [cost |-> 0, history |-> <<>>, solution |-> "None"]

\* trial_results[name] = {'cost': np.inf, 'history': [], 'solution': None}
FailureEntry == [cost |-> Inf, history |-> <<>>, solution |-> "None"]

\* the try block of one algorithm: the entry of trial_results
TrialEntry(out) ==
    IF out.raised THEN FailureEntry
    ELSE [cost |-> IF out.history # <<>> THEN Last(out.history) ELSE Inf,
          history |-> out.history,
          solution |-> out.best_x]

\* results = {name: {'costs': [], 'histories': [], 'solutions': []} for name in algorithms}
EmptyResults(algorithms) ==
    [name \in {algorithms[i].name : i \in 1..Len(algorithms)} |->
        [costs |-> <<>>, histories |-> <<>>, solutions |-> <<>>]]

\* the draws of the trial's seed
SeededDraw(trial) ==
    [variation |-> Constant(1000),
     solar_failure |-> [t \in 1..Hours |-> IF t = (trial % Hours) + 1 THEN 1 ELSE 0],
     wind_failure |-> Constant(0),
     grid_available |-> Constant(1),
     emergency_event |-> Constant(0),
     demand_noise |-> Constant(1150),
     spike_hours |-> {0, 1, 2, 3},
     spike_factor |-> 3000]

\* for trial in range(num_trials): optimizer = optimizer_class();
\* optimizer.load_data(trial); trial_results = {}
StartTrial ==
    /\ harness.pc = "trial"
    /\ harness.trial < harness.num_trials
    /\ hours' = Hours
    /\ temperature' = 2500
    /\ Loaded(SeededDraw(harness.trial))
    /\ harness' = [harness EXCEPT !.pc = "algs", !.alg_i = 1, !.trial_results = <<>>]
    /\ UNCHANGED <<data_pc, callers, call, soc>>

\* for name, method_name in algorithms.items(): try: ... except Exception: ...
Invoke ==
    /\ harness.pc = "algs"
    /\ harness.alg_i <= Len(harness.algorithms)
    /\ LET a == harness.algorithms[harness.alg_i]
       IN \E nat \in NativeRuns(a.method, harness.max_iter) :
            LET out == CallMethod(a.method, harness.max_iter, nat)
            IN harness' = [harness EXCEPT
                  !.alg_i = @ + 1,
                  !.trial_results = Append(@, [name |-> a.name, data |-> TrialEntry(out)]),
                  !.log = Append(@, [trial |-> harness.trial, name |-> a.name,
                                     method |-> a.method, native |-> nat, out |-> out])]
    /\ UNCHANGED <<optVars, data_pc, callers, call, soc>>

RECURSIVE Collected(_, _)
\* for name, data in trial_results.items(): results[name][...].append(data[...])
Collected(results, trial_results) ==
    IF trial_results = <<>> THEN results
    ELSE LET e == Head(trial_results)
         IN Collected([results EXCEPT
                          ![e.name].costs = Append(@, e.data.cost),
                          ![e.name].histories = Append(@, e.data.history),
                          ![e.name].solutions = Append(@, e.data.solution)],
                      Tail(trial_results))

Collect ==
    /\ harness.pc = "algs"
    /\ harness.alg_i > Len(harness.algorithms)
    /\ harness' = [harness EXCEPT
          !.pc = "trial", !.trial = @ + 1,
          !.results = Collected(@, harness.trial_results),
          !.trial_results = <<>>]
    /\ UNCHANGED <<optVars, data_pc, callers, call, soc>>

\* return results
Finish ==
    /\ harness.pc = "trial"
    /\ harness.trial = harness.num_trials
    /\ harness' = [harness EXCEPT !.pc = "returned"]
    /\ UNCHANGED <<optVars, data_pc, callers, call, soc>>

\* the registries of the sampled runs: name -> method name, in insertion order
Registries ==
    { <<[name |-> "GA", method |-> "run_ga"], [name |-> "CPSO", method |-> "run_pso"]>>,
      <<[name |-> "GWWOA", method |-> "run_gwwoa"], [name |-> "GWO", method |-> "run_gwo"]>>,
      <<[name |-> "WOA", method |-> "run_woa"], [name |-> "BAD", method |-> "run_missing"]>>,
      <<[name |-> "HS", method |-> "run_hs"], [name |-> "FPA", method |-> "run_fpa"]>>,
      <<>> }

\* max_iter of the optimizer class under trial
IterVals == {0, 2}

InitTrials ==
    /\ Constructed
    /\ data_pc = "off"
    /\ callers = {}
    /\ call = [c \in CallIds |-> OffCall]
    /\ soc = OffSoc
    /\ \E algorithms \in Registries, num_trials \in 0..MaxTrials, max_iter \in IterVals :
          harness = [pc |-> "trial", algorithms |-> algorithms, num_trials |-> num_trials,
                     max_iter |-> max_iter, trial |-> 0, alg_i |-> 1,
                     trial_results |-> <<>>, results |-> EmptyResults(algorithms),
                     log |-> <<>>]

NextTrials == StartTrial \/ Invoke \/ Collect \/ Finish

SpecTrials == InitTrials /\ [][NextTrials]_vars

Names == {harness.algorithms[i].name : i \in 1..Len(harness.algorithms)}

\* the entry recorded for log entry e, once its trial is collected
EntryOf(e) ==
    LET r == harness.results[e.name]
    IN [cost |-> r.costs[e.trial + 1], history |-> r.histories[e.trial + 1],
        solution |-> r.solutions[e.trial + 1]]

\* C4: run_multiple_trials returns n costs, n histories and n solutions for every
\* registered algorithm, in trial order; an invocation that raises is recorded as
\* cost = +infinity, empty history, null solution, and every other invocation of
\* that trial and of the later trials is recorded with its own result.
C4_FaultIsolation ==
    harness.pc = "returned" =>
        /\ \A name \in Names :
              /\ Len(harness.results[name].costs) = harness.num_trials
              /\ Len(harness.results[name].histories) = harness.num_trials
              /\ Len(harness.results[name].solutions) = harness.num_trials
        /\ Len(harness.log) = harness.num_trials * Len(harness.algorithms)
        /\ \A i \in 1..Len(harness.log) :
              LET e == harness.log[i]
              IN IF e.out.raised
                 THEN EntryOf(e) = [cost |-> Inf, history |-> <<>>, solution |-> "None"]
                 ELSE /\ EntryOf(e).history = e.out.history
                      /\ EntryOf(e).solution = e.out.best_x
                      /\ EntryOf(e).cost = IF e.out.history = <<>> THEN Inf
                                           ELSE e.out.history[Len(e.out.history)]

\* two trials returned: the first algorithm raised in the first trial, the second
\* one returned a finite cost in it, and the first one returned in the second trial
C4_Witness ==
    /\ harness.pc = "returned"
    /\ harness.num_trials >= 2
    /\ Len(harness.algorithms) = 2
    /\ harness.log[1].out.raised
    /\ ~harness.log[2].out.raised /\ harness.log[2].out.history = <<20, 10>>
    /\ ~harness.log[3].out.raised /\ harness.log[3].out.history # <<>>

\* C9: an invocation that returns with a non-finite final cost is recorded as a
\* raised failure is: cost = +infinity, empty history, null solution.
C9_NonFiniteRecordedAsFailure ==
    harness.pc = "returned" =>
        \A i \in 1..Len(harness.log) :
            LET e == harness.log[i]
            IN (~e.out.raised /\ e.out.history # <<>> /\ ~IsFinite(Last(e.out.history)))
                   => EntryOf(e) = FailureEntry

\* C6: every adapter returns a history of length >= 1, also under max_iter = 0
\* and when the native optimizer reports an empty history.
C6_HistoryNonEmpty ==
    \A i \in 1..Len(harness.log) :
        LET e == harness.log[i]
        IN (e.method \in Methods /\ ~e.out.raised) => Len(e.out.history) >= 1

----------------------------------------------------------------------------
\* calculate_soc(solution, hours)

\* P_bess = u[t] * S, in 1e-3 kW
CalcPBess(S, u, t) == u[t + 1] * S

\* the delta with the two efficiencies exchanged
CalcDeltaSwapped(P_bess, S) ==
    IF P_bess < 0
    THEN LongDiv((-P_bess) * 100, 95 * S, 3)
    ELSE -MulDiv(P_bess, 950, S)

\* if P_bess < 0: delta = (-P_bess * 0.95) / S   else: delta = -P_bess / (0.95 * S)
CalcDelta(P_bess, S) ==
    IF P_bess < 0
    THEN MulDiv(-P_bess, 950, S)
    ELSE -LongDiv(P_bess * 100, 95 * S, 3)

\* SOC = np.zeros(hours); SOC[0] = 0.5
SocEnter ==
    /\ soc.pc = "idle"
    /\ soc' = [soc EXCEPT !.pc = "loop", !.t = 1,
                          !.SOC = [i \in 1..soc.hours |-> IF i = 1 THEN 500000 ELSE 0]]
    /\ UNCHANGED <<optVars, data_pc, callers, call, harness>>

\* one iteration of for t in range(1, hours); u[t] raises IndexError when the
\* solution is too short
SocStep ==
    /\ soc.pc = "loop"
    /\ soc.t < soc.hours
    /\ LET S == SolS(soc.solution)
           u == SolU(soc.solution)
           t == soc.t
       IN IF t + 1 > Len(u)
          THEN soc' = [soc EXCEPT !.pc = "raised"]
          ELSE LET delta == CalcDelta(CalcPBess(S, u, t), S)
               IN soc' = [soc EXCEPT
                     !.t = @ + 1,
                     !.SOC[t + 1] = Clip(soc.SOC[t] + delta, 100000, 900000)]
    /\ UNCHANGED <<optVars, data_pc, callers, call, harness>>

\* return SOC
SocReturn ==
    /\ soc.pc = "loop"
    /\ soc.t = soc.hours
    /\ soc' = [soc EXCEPT !.pc = "done"]
    /\ UNCHANGED <<optVars, data_pc, callers, call, harness>>

\* dispatch fractions of the sampled traces, some outside [-0.5, 0.5]
SocUVals == {-1500, -500, -100, 0, 300, 500}

InitSoc ==
    /\ Constructed
    /\ data_pc = "off"
    /\ callers = {}
    /\ call = [c \in CallIds |-> OffCall]
    /\ harness = OffHarness
    /\ \E h \in 1..MaxSocHours, S \in SVals :
          \E n \in {h - 1, h} : \E u \in [1..n -> SocUVals] :
              soc = [pc |-> "idle", solution |-> <<S>> \o u, hours |-> h, t |-> 0,
                     SOC |-> <<>>]

NextSoc == SocEnter \/ SocStep \/ SocReturn

SpecSoc == InitSoc /\ [][NextSoc]_vars

\* the delta of the claim, from u[t] alone: -u*0.95 when u < 0, -u/0.95 otherwise
DeltaOfU(x) == IF x < 0 THEN (-x) * 950 ELSE -((x * 100000) \div 95)

\* C8: for S > 0 and hours >= 1 the trace calculate_soc returns starts at 0.5, stays
\* within [0.1, 0.9], and its element t is clamp(SOC[t-1] + delta(u[t]), 0.1, 0.9)
\* with delta = -u[t]*0.95 when u[t] < 0 and -u[t]/0.95 otherwise.
C8_TraceClamped ==
    (soc.pc = "done" /\ SolS(soc.solution) > 0) =>
        /\ Len(soc.SOC) = soc.hours
        /\ soc.SOC[1] = 500000
        /\ \A i \in 1..soc.hours : soc.SOC[i] >= 100000 /\ soc.SOC[i] <= 900000
        /\ \A i \in 2..soc.hours :
              soc.SOC[i] = Clip(soc.SOC[i - 1] + DeltaOfU(SolU(soc.solution)[i]),
                                100000, 900000)

\* a returned trace that was clamped at the top, then discharged inside the band
C8_Witness ==
    /\ soc.pc = "done"
    /\ soc.hours >= 3
    /\ soc.SOC[2] = 900000
    /\ soc.SOC[3] < 900000 /\ soc.SOC[3] > 100000

====
